---- MODULE Spec2Model ----
(***************************************************************************)
(* State-machine model of the SPI controller driver (spi_driver.c) running *)
(* against the memory-mapped controller it programs.  Every volatile       *)
(* register access of the driver is one step, so that the controller's own *)
(* steps (accepting a Start, finishing a transfer, moving FIFO bytes) can  *)
(* interleave with the driver exactly where the real hardware can.         *)
(***************************************************************************)
EXTENDS Integers, Sequences, FiniteSets, TLC

(* ------------------------------------------------------------------ *)
(* Register bit layout (spi_driver.h)                                  *)
(* ------------------------------------------------------------------ *)
CTRL_START == 1
CTRL_MODE0 == 2
CTRL_MODE1 == 4
CTRL_CS0 == 8
CTRL_CS1 == 16
CTRL_IRQ_EN == 32
CTRL_LOOPBACK == 128
CTRL_CS_POL == 256

STAT_BUSY == 1
STAT_TX_FULL == 4
STAT_TX_EMPTY == 8
STAT_RX_FULL == 16
STAT_RX_EMPTY == 32
STAT_ERROR == 64

SPI_MODE_0 == 0
SPI_MODE_1 == 1
SPI_MODE_2 == 2
SPI_MODE_3 == 3

SPI_CS_0 == 0
SPI_CS_1 == 1
SPI_CS_2 == 2
SPI_CS_3 == 3

SPI_OK == "SPI_OK"
SPI_ERROR_BUSY == "SPI_ERROR_BUSY"
SPI_ERROR_TIMEOUT == "SPI_ERROR_TIMEOUT"
SPI_ERROR_FIFO_FULL == "SPI_ERROR_FIFO_FULL"
SPI_ERROR_FIFO_EMPTY == "SPI_ERROR_FIFO_EMPTY"
SPI_ERROR_INVALID_MODE == "SPI_ERROR_INVALID_MODE"

\* literal bytes used by the driver and its harness
FILLER == 255
CMD_READ_ID == 159
TEST_BYTE == 170
FIFO_BYTE == 85

(* ------------------------------------------------------------------ *)
(* Bounds of the model                                                 *)
(* ------------------------------------------------------------------ *)
MaxLen == 2
FifoDepth == 2
MaxTime == 2

\* width of the control word (uint32_t)
RegWidth == 32

\* marker of a byte location nobody has written yet
Uninit == -1

\* what an unwritten stack location can read as
Garbage == {0, 165}
\* what the bus returns when no modelled device drives it
DeviceBytes == {0, 255}
\* the simulated flash part's answer to the Read-ID command
FlashResponse == <<239, 64, 24>>

(* ------------------------------------------------------------------ *)
(* Bit operations on register words                                    *)
(* ------------------------------------------------------------------ *)
RECURSIVE OrBits(_, _, _)
OrBits(a, b, k) ==
    IF k = 0 THEN 0
    ELSE (IF a % 2 = 1 \/ b % 2 = 1 THEN 1 ELSE 0)
         + 2 * OrBits(a \div 2, b \div 2, k - 1)

RECURSIVE AndNotBits(_, _, _)
AndNotBits(a, b, k) ==
    IF k = 0 THEN 0
    ELSE (IF a % 2 = 1 /\ b % 2 = 0 THEN 1 ELSE 0)
         + 2 * AndNotBits(a \div 2, b \div 2, k - 1)

\* a | m
BitOr(a, m) == OrBits(a, m, RegWidth)
\* a & ~m
BitClear(a, m) == AndNotBits(a, m, RegWidth)
\* (a & m) != 0, for a single-bit mask m
BitSet(a, m) == (a \div m) % 2 = 1

VARIABLES
    current_mode, current_cs, initialized,
    SPI_CONTROL, SPI_CLK_DIV, SPI_TX_DATA, SPI_RX_DATA, SPI_TX_FIFO, SPI_RX_FIFO,
    busy, shift, stat_error, flashQ, device, faulty,
    pc, stack, retval, op, arg, clk_div, tx_data, rx_ptr, control, data, buffer,
    length, i, timeout_ms, ptrs, rx_byte, ids,
    pre, trace, elapsed, callErr

drv == <<current_mode, current_cs, initialized>>
regs == <<SPI_CONTROL, SPI_CLK_DIV, SPI_TX_DATA, SPI_RX_DATA, SPI_TX_FIFO, SPI_RX_FIFO>>
hw == <<busy, shift, stat_error, flashQ>>
env == <<device, faulty>>
frame == <<pc, stack, retval>>
callargs == <<op, clk_div, data, timeout_ms, ptrs>>
xfer == <<tx_data, rx_ptr>>
bulk == <<buffer, length, i>>
outs == <<rx_byte, ids>>
hist == <<pre, elapsed, callErr>>
vars == <<drv, regs, hw, env, frame, callargs, arg, xfer, control, bulk, outs,
          hist, trace>>

(* ------------------------------------------------------------------ *)
(* Status register: every bit is driven by the controller              *)
(* ------------------------------------------------------------------ *)
SPI_STATUS ==
    (IF busy THEN STAT_BUSY ELSE 0)
    + (IF Len(SPI_TX_FIFO) >= FifoDepth THEN STAT_TX_FULL ELSE 0)
    + (IF SPI_TX_FIFO = <<>> THEN STAT_TX_EMPTY ELSE 0)
    + (IF Len(SPI_RX_FIFO) >= FifoDepth THEN STAT_RX_FULL ELSE 0)
    + (IF SPI_RX_FIFO = <<>> THEN STAT_RX_EMPTY ELSE 0)
    + (IF stat_error THEN STAT_ERROR ELSE 0)

spi_is_busy == BitSet(SPI_STATUS, STAT_BUSY)
spi_has_error == BitSet(SPI_STATUS, STAT_ERROR)
spi_is_tx_fifo_full == BitSet(SPI_STATUS, STAT_TX_FULL)
spi_is_rx_fifo_empty == BitSet(SPI_STATUS, STAT_RX_EMPTY)

\* a transfer handed to the controller that it has not finished yet
InFlight == BitSet(SPI_CONTROL, CTRL_START) \/ busy

(* ------------------------------------------------------------------ *)
(* Control flow helpers: return to the caller, call a driver function  *)
(* ------------------------------------------------------------------ *)
Return(v) ==
    /\ retval' = v
    /\ IF stack = <<>>
       THEN pc' = "idle" /\ stack' = stack
       ELSE pc' = Head(stack) /\ stack' = Tail(stack)

Goto(l) == pc' = l /\ UNCHANGED <<stack, retval>>

CallFn(f, back) == pc' = f /\ stack' = <<back>> \o stack /\ UNCHANGED retval

\* one record of the register traffic of the running call
Log(kind, r, v) == trace' = Append(trace, <<kind, r, v>>)

Snapshot ==
    [control |-> SPI_CONTROL, clk |-> SPI_CLK_DIV, tx |-> SPI_TX_DATA,
     rx |-> SPI_RX_DATA, txf |-> SPI_TX_FIFO, rxf |-> SPI_RX_FIFO,
     mode |-> current_mode, cs |-> current_cs, init |-> initialized,
     busy |-> busy, err |-> stat_error, inflight |-> InFlight]

(* ------------------------------------------------------------------ *)
(* spi_init / spi_deinit                                               *)
(* ------------------------------------------------------------------ *)
ModeBits(m) ==
    CASE m = SPI_MODE_0 -> 0
      [] m = SPI_MODE_1 -> CTRL_MODE0
      [] m = SPI_MODE_2 -> CTRL_MODE1
      [] m = SPI_MODE_3 -> BitOr(CTRL_MODE0, CTRL_MODE1)
      [] OTHER -> 0

ValidMode(m) == m \in {SPI_MODE_0, SPI_MODE_1, SPI_MODE_2, SPI_MODE_3}

InitCsBits ==
    IF current_cs = SPI_CS_0 THEN CTRL_CS0
    ELSE IF current_cs = SPI_CS_1 THEN CTRL_CS1 ELSE 0

spi_init ==
    /\ pc = "spi_init"
    /\ arg' = (IF ValidMode(arg) THEN arg ELSE SPI_MODE_0)
    /\ control' = BitOr(ModeBits(arg), InitCsBits)
    /\ SPI_CONTROL' = control'
    /\ Log("W", "SPI_CONTROL", control')
    /\ Goto("spi_init_clk")
    /\ UNCHANGED <<drv, SPI_CLK_DIV, SPI_TX_DATA, SPI_RX_DATA, SPI_TX_FIFO,
                   SPI_RX_FIFO, hw, env, callargs, xfer, bulk, outs, hist>>

spi_init_clk ==
    /\ pc = "spi_init_clk"
    /\ SPI_CLK_DIV' = clk_div
    /\ Log("W", "SPI_CLK_DIV", clk_div)
    /\ Goto("spi_init_status")
    /\ UNCHANGED <<drv, SPI_CONTROL, SPI_TX_DATA, SPI_RX_DATA, SPI_TX_FIFO,
                   SPI_RX_FIFO, hw, env, callargs, arg, xfer, control, bulk, outs,
                   hist>>

\* a write of 0 to the status register clears the sticky Error flag; the live
\* flags (Busy, FIFO levels) keep following the controller
spi_init_status ==
    /\ pc = "spi_init_status"
    /\ stat_error' = FALSE
    /\ Log("W", "SPI_STATUS", 0)
    /\ current_mode' = arg
    /\ initialized' = TRUE
    /\ Return("void")
    /\ UNCHANGED <<current_cs, regs, busy, shift, flashQ, env, callargs, arg, xfer,
                   control, bulk, outs, hist>>

\* faulty variant: the "already deinitialised" early return is missing
spi_deinit_always_resets ==
    /\ pc = "spi_deinit"
    /\ SPI_CONTROL' = 0
    /\ Log("W", "SPI_CONTROL", 0)
    /\ Goto("spi_deinit_drain")
    /\ UNCHANGED <<drv, SPI_CLK_DIV, SPI_TX_DATA, SPI_RX_DATA, SPI_TX_FIFO,
                   SPI_RX_FIFO, hw, env, callargs, arg, xfer, control, bulk, outs,
                   hist>>

spi_deinit ==
    /\ pc = "spi_deinit"
    /\ IF ~initialized
       THEN /\ Return(SPI_OK)
            /\ UNCHANGED <<SPI_CONTROL, trace>>
       ELSE /\ SPI_CONTROL' = 0
            /\ Log("W", "SPI_CONTROL", 0)
            /\ Goto("spi_deinit_drain")
    /\ UNCHANGED <<drv, SPI_CLK_DIV, SPI_TX_DATA, SPI_RX_DATA, SPI_TX_FIFO,
                   SPI_RX_FIFO, hw, env, callargs, arg, xfer, control, bulk, outs,
                   hist>>

\* faulty variant: the receive FIFO is popped once at most instead of until empty
spi_deinit_drain_once ==
    /\ pc = "spi_deinit_drain"
    /\ IF ~spi_is_rx_fifo_empty /\ trace = <<<<"W", "SPI_CONTROL", 0>>>>
       THEN /\ CallFn("spi_fifo_read", "spi_deinit_drain")
            /\ UNCHANGED initialized
       ELSE /\ initialized' = FALSE
            /\ Return(SPI_OK)
    /\ UNCHANGED <<current_mode, current_cs, regs, hw, env, callargs, arg, xfer,
                   control, bulk, outs, hist, trace>>

spi_deinit_drain ==
    /\ pc = "spi_deinit_drain"
    /\ IF ~spi_is_rx_fifo_empty
       THEN /\ CallFn("spi_fifo_read", "spi_deinit_drain")
            /\ UNCHANGED initialized
       ELSE /\ initialized' = FALSE
            /\ Return(SPI_OK)
    /\ UNCHANGED <<current_mode, current_cs, regs, hw, env, callargs, arg, xfer,
                   control, bulk, outs, hist, trace>>

(* ------------------------------------------------------------------ *)
(* FIFO operations                                                     *)
(* ------------------------------------------------------------------ *)
\* faulty variant: the Tx-full check is missing
spi_fifo_write_no_full_check ==
    /\ pc = "spi_fifo_write"
    /\ IF ~initialized THEN Return(SPI_ERROR_INVALID_MODE)
       ELSE Goto("spi_fifo_write_push")
    /\ UNCHANGED <<drv, regs, hw, env, callargs, arg, xfer, control, bulk, outs,
                   hist, trace>>

spi_fifo_write ==
    /\ pc = "spi_fifo_write"
    /\ IF ~initialized THEN Return(SPI_ERROR_INVALID_MODE)
       ELSE IF spi_is_tx_fifo_full THEN Return(SPI_ERROR_FIFO_FULL)
       ELSE Goto("spi_fifo_write_push")
    /\ UNCHANGED <<drv, regs, hw, env, callargs, arg, xfer, control, bulk, outs,
                   hist, trace>>

\* a byte written to a FIFO that has no room is dropped by the controller
spi_fifo_write_push ==
    /\ pc = "spi_fifo_write_push"
    /\ SPI_TX_FIFO' = (IF Len(SPI_TX_FIFO) < FifoDepth
                       THEN Append(SPI_TX_FIFO, arg) ELSE SPI_TX_FIFO)
    /\ Log("W", "SPI_TX_FIFO", arg)
    /\ Return(SPI_OK)
    /\ UNCHANGED <<drv, SPI_CONTROL, SPI_CLK_DIV, SPI_TX_DATA, SPI_RX_DATA,
                   SPI_RX_FIFO, hw, env, callargs, arg, xfer, control, bulk, outs,
                   hist>>

spi_fifo_read ==
    /\ pc = "spi_fifo_read"
    /\ IF ~initialized THEN Return(SPI_ERROR_INVALID_MODE)
       ELSE IF spi_is_rx_fifo_empty THEN Return(SPI_ERROR_FIFO_EMPTY)
       ELSE Goto("spi_fifo_read_pop")
    /\ UNCHANGED <<drv, regs, hw, env, callargs, arg, xfer, control, bulk, outs,
                   hist, trace>>

\* reading the FIFO register pops its head; an empty FIFO reads as 0
spi_fifo_read_pop ==
    /\ pc = "spi_fifo_read_pop"
    /\ LET v == IF SPI_RX_FIFO = <<>> THEN 0 ELSE Head(SPI_RX_FIFO)
       IN /\ rx_byte' = v
          /\ Log("R", "SPI_RX_FIFO", v)
    /\ SPI_RX_FIFO' = (IF SPI_RX_FIFO = <<>> THEN <<>> ELSE Tail(SPI_RX_FIFO))
    /\ Return(SPI_OK)
    /\ UNCHANGED <<drv, SPI_CONTROL, SPI_CLK_DIV, SPI_TX_DATA, SPI_RX_DATA,
                   SPI_TX_FIFO, hw, env, callargs, arg, xfer, control, bulk, ids,
                   hist>>

(* ------------------------------------------------------------------ *)
(* Configuration operations: read-modify-write of the control register *)
(* ------------------------------------------------------------------ *)
\* "if (!initialized) return INVALID_MODE; control = SPI_REG(SPI_CONTROL);"
RmwRead(l, next) ==
    /\ pc = l
    /\ IF ~initialized
       THEN Return(SPI_ERROR_INVALID_MODE) /\ UNCHANGED control
       ELSE control' = SPI_CONTROL /\ Goto(next)
    /\ UNCHANGED <<drv, regs, hw, env, callargs, arg, xfer, bulk, outs, hist, trace>>

\* "SPI_REG(SPI_CONTROL) = control; return SPI_OK;"
RmwWrite(l, v) ==
    /\ pc = l
    /\ SPI_CONTROL' = v
    /\ Log("W", "SPI_CONTROL", v)
    /\ Return(SPI_OK)
    /\ UNCHANGED <<initialized, SPI_CLK_DIV, SPI_TX_DATA, SPI_RX_DATA, SPI_TX_FIFO,
                   SPI_RX_FIFO, hw, env, callargs, arg, xfer, control, bulk, outs,
                   hist>>

\* an early "return SPI_ERROR_INVALID_MODE" that writes nothing
RmwReject(l) ==
    /\ pc = l
    /\ Return(SPI_ERROR_INVALID_MODE)
    /\ UNCHANGED <<drv, regs, hw, env, callargs, arg, xfer, control, bulk, outs,
                   hist, trace>>

\* faulty variant: the old mode bits are not cleared before the new ones are set
spi_set_mode_write_no_clear ==
    IF ValidMode(arg)
    THEN /\ RmwWrite("spi_set_mode_write", BitOr(control, ModeBits(arg)))
         /\ current_mode' = arg
         /\ UNCHANGED current_cs
    ELSE RmwReject("spi_set_mode_write")

spi_set_mode == RmwRead("spi_set_mode", "spi_set_mode_write")

spi_set_mode_write ==
    IF ValidMode(arg)
    THEN /\ RmwWrite("spi_set_mode_write",
                     BitOr(BitClear(control, BitOr(CTRL_MODE0, CTRL_MODE1)),
                           ModeBits(arg)))
         /\ current_mode' = arg
         /\ UNCHANGED current_cs
    ELSE RmwReject("spi_set_mode_write")

\* faulty variant: the minimum divider is not enforced
spi_set_clock_divider_no_minimum ==
    /\ pc = "spi_set_clock_divider"
    /\ IF ~initialized
       THEN /\ Return(SPI_ERROR_INVALID_MODE)
            /\ UNCHANGED <<SPI_CLK_DIV, trace>>
       ELSE /\ SPI_CLK_DIV' = arg
            /\ Log("W", "SPI_CLK_DIV", arg)
            /\ Return(SPI_OK)
    /\ UNCHANGED <<drv, SPI_CONTROL, SPI_TX_DATA, SPI_RX_DATA, SPI_TX_FIFO,
                   SPI_RX_FIFO, hw, env, callargs, arg, xfer, control, bulk, outs,
                   hist>>

spi_set_clock_divider ==
    /\ pc = "spi_set_clock_divider"
    /\ IF ~initialized
       THEN /\ Return(SPI_ERROR_INVALID_MODE)
            /\ UNCHANGED <<SPI_CLK_DIV, trace>>
       ELSE LET divider == IF arg < 2 THEN 2 ELSE arg
            IN /\ SPI_CLK_DIV' = divider
               /\ Log("W", "SPI_CLK_DIV", divider)
               /\ Return(SPI_OK)
    /\ UNCHANGED <<drv, SPI_CONTROL, SPI_TX_DATA, SPI_RX_DATA, SPI_TX_FIFO,
                   SPI_RX_FIFO, hw, env, callargs, arg, xfer, control, bulk, outs,
                   hist>>

\* faulty variant: the word is replaced by the flag's bit instead of modified
FlagBit_overwrites(word, flag, bit) ==
    IF flag # 0 THEN bit ELSE 0

\* "if (flag) control |= bit; else control &= ~bit;"
FlagBit(word, flag, bit) ==
    IF flag # 0 THEN BitOr(word, bit) ELSE BitClear(word, bit)

spi_set_cs_polarity == RmwRead("spi_set_cs_polarity", "spi_set_cs_polarity_write")

spi_set_cs_polarity_write ==
    /\ RmwWrite("spi_set_cs_polarity_write", FlagBit(control, arg, CTRL_CS_POL))
    /\ UNCHANGED <<current_mode, current_cs>>

spi_enable_loopback == RmwRead("spi_enable_loopback", "spi_enable_loopback_write")

spi_enable_loopback_write ==
    /\ RmwWrite("spi_enable_loopback_write", FlagBit(control, arg, CTRL_LOOPBACK))
    /\ UNCHANGED <<current_mode, current_cs>>

spi_enable_interrupt == RmwRead("spi_enable_interrupt", "spi_enable_interrupt_write")

spi_enable_interrupt_write ==
    /\ RmwWrite("spi_enable_interrupt_write", FlagBit(control, arg, CTRL_IRQ_EN))
    /\ UNCHANGED <<current_mode, current_cs>>

\* the status read of spi_clear_interrupt changes no flag this model keeps
spi_clear_interrupt ==
    /\ pc = "spi_clear_interrupt"
    /\ IF ~initialized THEN Return(SPI_ERROR_INVALID_MODE) ELSE Return(SPI_OK)
    /\ UNCHANGED <<drv, regs, hw, env, callargs, arg, xfer, control, bulk, outs,
                   hist, trace>>

ValidCs(c) == c \in {SPI_CS_0, SPI_CS_1, SPI_CS_2, SPI_CS_3}

\* the select bit spi_select_device raises for a line: CS2 and CS3 share the
\* bits of CS0 and CS1
SelectBit(c) == IF c \in {SPI_CS_0, SPI_CS_2} THEN CTRL_CS0 ELSE CTRL_CS1

spi_select_device == RmwRead("spi_select_device", "spi_select_device_write")

spi_select_device_write ==
    IF ValidCs(arg)
    THEN /\ RmwWrite("spi_select_device_write",
                     BitOr(BitClear(control, BitOr(CTRL_CS0, CTRL_CS1)),
                           SelectBit(arg)))
         /\ current_cs' = arg
         /\ UNCHANGED current_mode
    ELSE RmwReject("spi_select_device_write")

\* faulty variant: deselecting CS2 or CS3 clears the aliased bit only
DeselectMask_aliased(c) ==
    IF c \in {SPI_CS_0, SPI_CS_2} THEN CTRL_CS0 ELSE CTRL_CS1

\* the bits spi_deselect_device clears: its default branch takes every value
\* other than CS0 and CS1
DeselectMask(c) ==
    IF c = SPI_CS_0 THEN CTRL_CS0
    ELSE IF c = SPI_CS_1 THEN CTRL_CS1
    ELSE BitOr(CTRL_CS0, CTRL_CS1)

spi_deselect_device == RmwRead("spi_deselect_device", "spi_deselect_device_write")

spi_deselect_device_write ==
    /\ RmwWrite("spi_deselect_device_write", BitClear(control, DeselectMask(arg)))
    /\ UNCHANGED <<current_mode, current_cs>>

(* ------------------------------------------------------------------ *)
(* spi_transfer: one byte                                              *)
(* ------------------------------------------------------------------ *)
\* faulty variant: the initialisation guard is missing
spi_transfer_no_init_guard ==
    /\ pc = "spi_transfer"
    /\ IF spi_is_busy THEN Return(SPI_ERROR_BUSY) ELSE Goto("spi_transfer_tx")
    /\ UNCHANGED <<drv, regs, hw, env, callargs, arg, xfer, control, bulk, outs,
                   hist, trace>>

\* faulty variant: the Busy guard is missing
spi_transfer_no_busy_guard ==
    /\ pc = "spi_transfer"
    /\ IF ~initialized THEN Return(SPI_ERROR_INVALID_MODE)
       ELSE Goto("spi_transfer_tx")
    /\ UNCHANGED <<drv, regs, hw, env, callargs, arg, xfer, control, bulk, outs,
                   hist, trace>>

spi_transfer ==
    /\ pc = "spi_transfer"
    /\ IF ~initialized THEN Return(SPI_ERROR_INVALID_MODE)
       ELSE IF spi_is_busy THEN Return(SPI_ERROR_BUSY)
       ELSE Goto("spi_transfer_tx")
    /\ UNCHANGED <<drv, regs, hw, env, callargs, arg, xfer, control, bulk, outs,
                   hist, trace>>

spi_transfer_tx ==
    /\ pc = "spi_transfer_tx"
    /\ SPI_TX_DATA' = tx_data
    /\ Log("W", "SPI_TX_DATA", tx_data)
    /\ Goto("spi_transfer_ctl")
    /\ UNCHANGED <<drv, SPI_CONTROL, SPI_CLK_DIV, SPI_RX_DATA, SPI_TX_FIFO,
                   SPI_RX_FIFO, hw, env, callargs, arg, xfer, control, bulk, outs,
                   hist>>

spi_transfer_ctl ==
    /\ pc = "spi_transfer_ctl"
    /\ control' = SPI_CONTROL
    /\ Goto("spi_transfer_start")
    /\ UNCHANGED <<drv, regs, hw, env, callargs, arg, xfer, bulk, outs, hist, trace>>

spi_transfer_start ==
    /\ pc = "spi_transfer_start"
    /\ SPI_CONTROL' = BitOr(control, CTRL_START)
    /\ Log("W", "SPI_CONTROL", BitOr(control, CTRL_START))
    /\ IF rx_ptr # "NULL" THEN Goto("spi_transfer_wait") ELSE Return(SPI_OK)
    /\ UNCHANGED <<drv, SPI_CLK_DIV, SPI_TX_DATA, SPI_RX_DATA, SPI_TX_FIFO,
                   SPI_RX_FIFO, hw, env, callargs, arg, xfer, control, bulk, outs,
                   hist>>

\* "while (spi_is_busy()) {}": a poll that finds Busy set changes nothing
spi_transfer_wait ==
    /\ pc = "spi_transfer_wait"
    /\ ~spi_is_busy
    /\ Goto("spi_transfer_check")
    /\ UNCHANGED <<drv, regs, hw, env, callargs, arg, xfer, control, bulk, outs,
                   hist, trace>>

\* faulty variant: the Error flag is not looked at
spi_transfer_check_ignores_error ==
    /\ pc = "spi_transfer_check"
    /\ Goto("spi_transfer_read")
    /\ UNCHANGED <<drv, regs, hw, env, callargs, arg, xfer, control, bulk, outs,
                   hist, trace>>

spi_transfer_check ==
    /\ pc = "spi_transfer_check"
    /\ IF spi_has_error THEN Return(SPI_ERROR_TIMEOUT) ELSE Goto("spi_transfer_read")
    /\ UNCHANGED <<drv, regs, hw, env, callargs, arg, xfer, control, bulk, outs,
                   hist, trace>>

\* "*rx_data = SPI_REG8(SPI_RX_DATA)": rx_ptr names what rx_data points to
spi_transfer_read ==
    /\ pc = "spi_transfer_read"
    /\ IF rx_ptr = "buffer"
       THEN /\ buffer' = [buffer EXCEPT ![i + 1] = SPI_RX_DATA]
            /\ UNCHANGED rx_byte
       ELSE /\ rx_byte' = SPI_RX_DATA
            /\ UNCHANGED buffer
    /\ Log("R", "SPI_RX_DATA", SPI_RX_DATA)
    /\ Return(SPI_OK)
    /\ UNCHANGED <<drv, regs, hw, env, callargs, arg, xfer, control, length, i, ids,
                   hist>>

(* ------------------------------------------------------------------ *)
(* spi_transfer_blocking                                               *)
(* ------------------------------------------------------------------ *)
spi_transfer_blocking ==
    /\ pc = "spi_transfer_blocking"
    /\ IF ~initialized
       THEN Return(SPI_ERROR_INVALID_MODE) /\ UNCHANGED rx_ptr
       ELSE CallFn("spi_transfer", "spi_transfer_blocking_ret") /\ rx_ptr' = "NULL"
    /\ UNCHANGED <<drv, regs, hw, env, callargs, arg, tx_data, control, bulk, outs,
                   hist, trace>>

spi_transfer_blocking_ret ==
    /\ pc = "spi_transfer_blocking_ret"
    /\ IF retval # SPI_OK THEN Return(retval) ELSE Goto("spi_transfer_blocking_wait")
    /\ UNCHANGED <<drv, regs, hw, env, callargs, arg, xfer, control, bulk, outs,
                   hist, trace>>

spi_transfer_blocking_wait ==
    /\ pc = "spi_transfer_blocking_wait"
    /\ IF spi_is_busy THEN Goto("spi_transfer_blocking_body")
       ELSE Goto("spi_transfer_blocking_check")
    /\ UNCHANGED <<drv, regs, hw, env, callargs, arg, xfer, control, bulk, outs,
                   hist, trace>>

\* "if (timeout_ms > 0) { /* for now, just busy wait */ }"
spi_transfer_blocking_body ==
    /\ pc = "spi_transfer_blocking_body"
    /\ Goto("spi_transfer_blocking_wait")
    /\ UNCHANGED <<drv, regs, hw, env, callargs, arg, xfer, control, bulk, outs,
                   hist, trace>>

spi_transfer_blocking_check ==
    /\ pc = "spi_transfer_blocking_check"
    /\ IF spi_has_error THEN Return(SPI_ERROR_TIMEOUT)
       ELSE Goto("spi_transfer_blocking_read")
    /\ UNCHANGED <<drv, regs, hw, env, callargs, arg, xfer, control, bulk, outs,
                   hist, trace>>

spi_transfer_blocking_read ==
    /\ pc = "spi_transfer_blocking_read"
    /\ IF "rx" \in ptrs
       THEN /\ rx_byte' = SPI_RX_DATA
            /\ Log("R", "SPI_RX_DATA", SPI_RX_DATA)
       ELSE UNCHANGED <<rx_byte, trace>>
    /\ Return(SPI_OK)
    /\ UNCHANGED <<drv, regs, hw, env, callargs, arg, xfer, control, bulk, ids, hist>>

(* ------------------------------------------------------------------ *)
(* Bulk helpers                                                        *)
(* ------------------------------------------------------------------ *)
spi_write_bytes ==
    /\ pc = "spi_write_bytes"
    /\ IF ~initialized
       THEN Return(SPI_ERROR_INVALID_MODE) /\ UNCHANGED <<xfer, i>>
       ELSE IF "tx" \notin ptrs \/ length = 0
       THEN Return(SPI_OK) /\ UNCHANGED <<xfer, i>>
       ELSE /\ i' = 0
            /\ tx_data' = data[1]
            /\ rx_ptr' = "NULL"
            /\ CallFn("spi_transfer", "spi_write_bytes_next")
    /\ UNCHANGED <<drv, regs, hw, env, callargs, arg, control, buffer, length, outs,
                   hist, trace>>

spi_write_bytes_next ==
    /\ pc = "spi_write_bytes_next"
    /\ IF retval # SPI_OK
       THEN Return(retval) /\ UNCHANGED <<xfer, i>>
       ELSE IF i + 1 >= length
       THEN Return(SPI_OK) /\ i' = i + 1 /\ UNCHANGED xfer
       ELSE /\ i' = i + 1
            /\ tx_data' = data[i + 2]
            /\ rx_ptr' = "NULL"
            /\ CallFn("spi_transfer", "spi_write_bytes_next")
    /\ UNCHANGED <<drv, regs, hw, env, callargs, arg, control, buffer, length, outs,
                   hist, trace>>

spi_read_bytes ==
    /\ pc = "spi_read_bytes"
    /\ IF ~initialized
       THEN Return(SPI_ERROR_INVALID_MODE) /\ UNCHANGED <<xfer, i>>
       ELSE IF "rx" \notin ptrs \/ length = 0
       THEN Return(SPI_OK) /\ UNCHANGED <<xfer, i>>
       ELSE /\ i' = 0
            /\ tx_data' = FILLER
            /\ rx_ptr' = "buffer"
            /\ CallFn("spi_transfer", "spi_read_bytes_next")
    /\ UNCHANGED <<drv, regs, hw, env, callargs, arg, control, buffer, length, outs,
                   hist, trace>>

\* faulty variant: the loop goes on to the next byte after a failed transfer
spi_read_bytes_next_ignores_error ==
    /\ pc = "spi_read_bytes_next"
    /\ IF i + 1 >= length
       THEN Return(retval) /\ i' = i + 1 /\ UNCHANGED xfer
       ELSE /\ i' = i + 1
            /\ tx_data' = FILLER
            /\ rx_ptr' = "buffer"
            /\ CallFn("spi_transfer", "spi_read_bytes_next")
    /\ UNCHANGED <<drv, regs, hw, env, callargs, arg, control, buffer, length, outs,
                   hist, trace>>

spi_read_bytes_next ==
    /\ pc = "spi_read_bytes_next"
    /\ IF retval # SPI_OK
       THEN Return(retval) /\ UNCHANGED <<xfer, i>>
       ELSE IF i + 1 >= length
       THEN Return(SPI_OK) /\ i' = i + 1 /\ UNCHANGED xfer
       ELSE /\ i' = i + 1
            /\ tx_data' = FILLER
            /\ rx_ptr' = "buffer"
            /\ CallFn("spi_transfer", "spi_read_bytes_next")
    /\ UNCHANGED <<drv, regs, hw, env, callargs, arg, control, buffer, length, outs,
                   hist, trace>>

\* "tx_byte = (tx_data != NULL) ? tx_data[i] : 0xFF"
TxByte(k) == IF "tx" \in ptrs THEN data[k + 1] ELSE FILLER

spi_transfer_bytes ==
    /\ pc = "spi_transfer_bytes"
    /\ IF ~initialized
       THEN Return(SPI_ERROR_INVALID_MODE) /\ UNCHANGED <<xfer, i>>
       ELSE IF ("tx" \notin ptrs /\ "rx" \notin ptrs) \/ length = 0
       THEN Return(SPI_OK) /\ UNCHANGED <<xfer, i>>
       ELSE /\ i' = 0
            /\ tx_data' = TxByte(0)
            /\ rx_ptr' = "rx_byte"
            /\ CallFn("spi_transfer", "spi_transfer_bytes_next")
    /\ UNCHANGED <<drv, regs, hw, env, callargs, arg, control, buffer, length, outs,
                   hist, trace>>

spi_transfer_bytes_next ==
    /\ pc = "spi_transfer_bytes_next"
    /\ IF retval # SPI_OK
       THEN Return(retval) /\ UNCHANGED <<xfer, i, buffer>>
       ELSE /\ buffer' = (IF "rx" \in ptrs
                          THEN [buffer EXCEPT ![i + 1] = rx_byte] ELSE buffer)
            /\ i' = i + 1
            /\ IF i + 1 >= length
               THEN Return(SPI_OK) /\ UNCHANGED xfer
               ELSE /\ tx_data' = TxByte(i + 1)
                    /\ rx_ptr' = "rx_byte"
                    /\ CallFn("spi_transfer", "spi_transfer_bytes_next")
    /\ UNCHANGED <<drv, regs, hw, env, callargs, arg, control, length, outs, hist,
                   trace>>

(* ------------------------------------------------------------------ *)
(* spi_flash_read_id                                                   *)
(* ------------------------------------------------------------------ *)
spi_flash_read_id ==
    /\ pc = "spi_flash_read_id"
    /\ IF ~initialized
       THEN Return(SPI_ERROR_INVALID_MODE) /\ UNCHANGED arg
       ELSE arg' = SPI_CS_0 /\ CallFn("spi_select_device", "spi_flash_read_id_cmd")
    /\ UNCHANGED <<drv, regs, hw, env, callargs, xfer, control, bulk, outs, hist,
                   trace>>

\* "spi_transfer(cmd, NULL);" its result is dropped
spi_flash_read_id_cmd ==
    /\ pc = "spi_flash_read_id_cmd"
    /\ tx_data' = CMD_READ_ID
    /\ rx_ptr' = "NULL"
    /\ CallFn("spi_transfer", "spi_flash_read_id_resp")
    /\ UNCHANGED <<drv, regs, hw, env, callargs, arg, control, bulk, outs, hist,
                   trace>>

\* "spi_read_bytes(response, 3);" response[] starts unwritten
spi_flash_read_id_resp ==
    /\ pc = "spi_flash_read_id_resp"
    /\ buffer' = <<Uninit, Uninit, Uninit>>
    /\ length' = 3
    /\ ptrs' = ptrs \cup {"rx"}
    /\ CallFn("spi_read_bytes", "spi_flash_read_id_desel")
    /\ UNCHANGED <<drv, regs, hw, env, op, clk_div, data, timeout_ms, arg, xfer,
                   control, i, outs, hist, trace>>

spi_flash_read_id_desel ==
    /\ pc = "spi_flash_read_id_desel"
    /\ arg' = SPI_CS_0
    /\ CallFn("spi_deselect_device", "spi_flash_read_id_out")
    /\ UNCHANGED <<drv, regs, hw, env, callargs, xfer, control, bulk, outs, hist,
                   trace>>

\* what reading a byte location yields: an unwritten one reads as anything
ReadLoc(v) == IF v = Uninit THEN Garbage ELSE {v}

spi_flash_read_id_out ==
    /\ pc = "spi_flash_read_id_out"
    /\ \E m \in ReadLoc(buffer[1]), d \in ReadLoc(buffer[2]) :
          ids' = <<IF "manufacturer_id" \in ptrs THEN m ELSE Uninit,
                   IF "device_id" \in ptrs THEN d ELSE Uninit>>
    /\ Return(SPI_OK)
    /\ UNCHANGED <<drv, regs, hw, env, callargs, arg, xfer, control, bulk, rx_byte,
                   hist, trace>>

(* ------------------------------------------------------------------ *)
(* The controller                                                      *)
(* ------------------------------------------------------------------ *)
\* Start is taken when the shifter is free: the bit self-clears, Busy rises
HwAccept ==
    /\ BitSet(SPI_CONTROL, CTRL_START)
    /\ ~busy
    /\ SPI_CONTROL' = BitClear(SPI_CONTROL, CTRL_START)
    /\ busy' = TRUE
    /\ shift' = SPI_TX_DATA
    /\ stat_error' = FALSE
    /\ UNCHANGED <<drv, SPI_CLK_DIV, SPI_TX_DATA, SPI_RX_DATA, SPI_TX_FIFO,
                   SPI_RX_FIFO, flashQ, env, frame, callargs, arg, xfer, control,
                   bulk, outs, hist, trace>>

FlashSelected == device = "flash" /\ BitSet(SPI_CONTROL, CTRL_CS0)

\* the byte shifted in while `shift` is shifted out
Miso ==
    IF BitSet(SPI_CONTROL, CTRL_LOOPBACK) THEN {shift}
    ELSE IF device = "flash"
    THEN {IF FlashSelected /\ flashQ # <<>> THEN Head(flashQ) ELSE FILLER}
    ELSE DeviceBytes

\* the flash part queues its identification after the Read-ID command and
\* forgets it when it is not selected
FlashNext ==
    IF ~FlashSelected THEN <<>>
    ELSE IF shift = CMD_READ_ID THEN FlashResponse
    ELSE IF flashQ # <<>> THEN Tail(flashQ) ELSE <<>>

HwComplete ==
    /\ busy
    /\ busy' = FALSE
    /\ shift' = 0
    /\ \E b \in Miso : SPI_RX_DATA' = b
    /\ \E e \in (IF faulty THEN BOOLEAN ELSE {FALSE}) :
          /\ stat_error' = e
          /\ callErr' = (callErr \/ e)
    /\ flashQ' = FlashNext
    /\ UNCHANGED <<drv, SPI_CONTROL, SPI_CLK_DIV, SPI_TX_DATA, SPI_TX_FIFO,
                   SPI_RX_FIFO, env, frame, callargs, arg, xfer, control, bulk, outs,
                   pre, elapsed, trace>>

\* the buffered channel: a queued transmit byte comes back as a received one
HwFifo ==
    /\ SPI_TX_FIFO # <<>>
    /\ Len(SPI_RX_FIFO) < FifoDepth
    /\ SPI_RX_FIFO' = Append(SPI_RX_FIFO, Head(SPI_TX_FIFO))
    /\ SPI_TX_FIFO' = Tail(SPI_TX_FIFO)
    /\ UNCHANGED <<drv, SPI_CONTROL, SPI_CLK_DIV, SPI_TX_DATA, SPI_RX_DATA, hw, env,
                   frame, callargs, arg, xfer, control, bulk, outs, hist, trace>>

\* the time source of the bounded wait: time since the call began
Tick ==
    /\ op = "spi_transfer_blocking"
    /\ pc # "idle"
    /\ elapsed < MaxTime
    /\ elapsed' = elapsed + 1
    /\ UNCHANGED <<drv, regs, hw, env, frame, callargs, arg, xfer, control, bulk,
                   outs, pre, callErr, trace>>

(* ------------------------------------------------------------------ *)
(* The calling program: one driver call at a time                      *)
(* ------------------------------------------------------------------ *)
ModeArgs == 0 .. 4
CsArgs == 0 .. 4
\* dividers around the minimum the driver enforces, and the largest byte
DivArgs == {0, 1, 2, 4, 255}
FlagArgs == {0, 1}
TxArgs == {TEST_BYTE, FIFO_BYTE}
BulkBytes == {1, 2}
BulkArgs == UNION {[1 .. n -> BulkBytes] : n \in 0 .. MaxLen}
TimeoutArgs == {0, 1}

Blank(n) == [k \in 1 .. n |-> Uninit]

Enter(o, a, cd, tx, rp, d, n, t, ps) ==
    /\ pc = "idle"
    /\ pc' = o
    /\ stack' = <<>>
    /\ retval' = "none"
    /\ op' = o
    /\ arg' = a
    /\ clk_div' = cd
    /\ tx_data' = tx
    /\ rx_ptr' = rp
    /\ data' = d
    /\ length' = n
    /\ timeout_ms' = t
    /\ ptrs' = ps
    /\ control' = 0
    /\ buffer' = Blank(n)
    /\ i' = 0
    /\ rx_byte' = Uninit
    /\ ids' = <<Uninit, Uninit>>
    /\ pre' = Snapshot
    /\ trace' = <<>>
    /\ elapsed' = 0
    /\ callErr' = FALSE
    /\ UNCHANGED <<drv, regs, hw, env>>

Simple(o, a) == Enter(o, a, 0, 0, "NULL", <<>>, 0, 0, {})

CallInit == \E m \in ModeArgs, d \in DivArgs :
    Enter("spi_init", m, d, 0, "NULL", <<>>, 0, 0, {})
CallDeinit == Simple("spi_deinit", 0)
CallSetMode == \E m \in ModeArgs : Simple("spi_set_mode", m)
CallSetClockDivider == \E d \in DivArgs : Simple("spi_set_clock_divider", d)
CallSetCsPolarity == \E f \in FlagArgs : Simple("spi_set_cs_polarity", f)
CallEnableLoopback == \E f \in FlagArgs : Simple("spi_enable_loopback", f)
CallEnableInterrupt == \E f \in FlagArgs : Simple("spi_enable_interrupt", f)
CallClearInterrupt == Simple("spi_clear_interrupt", 0)
CallSelectDevice == \E c \in CsArgs : Simple("spi_select_device", c)
CallDeselectDevice == \E c \in CsArgs : Simple("spi_deselect_device", c)
CallFifoWrite == Simple("spi_fifo_write", FIFO_BYTE)
CallFifoRead == Simple("spi_fifo_read", 0)
CallTransfer == \E b \in TxArgs, rp \in {"NULL", "rx_byte"} :
    Enter("spi_transfer", 0, 0, b, rp, <<>>, 0, 0, {})
CallTransferBlocking == \E b \in TxArgs, ps \in {{}, {"rx"}}, t \in TimeoutArgs :
    Enter("spi_transfer_blocking", 0, 0, b, "NULL", <<>>, 0, t, ps)
\* a NULL buffer is passed with length 1; a buffer holds `length` bytes
CallWriteBytes ==
    \/ \E d \in BulkArgs : Enter("spi_write_bytes", 0, 0, 0, "NULL", d, Len(d), 0, {"tx"})
    \/ Enter("spi_write_bytes", 0, 0, 0, "NULL", <<>>, 1, 0, {})
CallReadBytes ==
    \/ \E n \in 0 .. MaxLen :
          Enter("spi_read_bytes", 0, 0, 0, "NULL", <<>>, n, 0, {"rx"})
    \/ Enter("spi_read_bytes", 0, 0, 0, "NULL", <<>>, 1, 0, {})
CallTransferBytes ==
    \/ \E d \in BulkArgs, ps \in {{"tx", "rx"}, {"tx"}} :
          Enter("spi_transfer_bytes", 0, 0, 0, "NULL", d, Len(d), 0, ps)
    \/ \E n \in 1 .. MaxLen :
          Enter("spi_transfer_bytes", 0, 0, 0, "NULL", <<>>, n, 0, {"rx"})
    \/ Enter("spi_transfer_bytes", 0, 0, 0, "NULL", <<>>, 1, 0, {})
CallFlashReadId == \E ps \in {{"manufacturer_id", "device_id"}} :
    Enter("spi_flash_read_id", 0, 0, 0, "NULL", <<>>, 0, 0, ps)

\* the chip-select field of a control word
CsField(w) ==
    (IF BitSet(w, CTRL_CS0) THEN CTRL_CS0 ELSE 0)
    + (IF BitSet(w, CTRL_CS1) THEN CTRL_CS1 ELSE 0)

(* A program that initialises, selects a line, optionally deselects it again,
   deinitialises and initialises anew.  data[1] is the line, "deselect" in
   ptrs asks for the deselection, and ids[1] keeps the chip-select field seen
   right after the selection. *)
CallReinitCycle == \E c \in {SPI_CS_0, SPI_CS_1, SPI_CS_2, SPI_CS_3},
                      ps \in {{}, {"deselect"}} :
    Enter("reinit_cycle", SPI_MODE_0, 4, 0, "NULL", <<c>>, 0, 0, ps)

reinit_cycle ==
    /\ pc = "reinit_cycle"
    /\ arg' = SPI_MODE_0
    /\ CallFn("spi_init", "reinit_cycle_select")
    /\ UNCHANGED <<drv, regs, hw, env, callargs, xfer, control, bulk, outs, hist,
                   trace>>

reinit_cycle_select ==
    /\ pc = "reinit_cycle_select"
    /\ arg' = data[1]
    /\ CallFn("spi_select_device", "reinit_cycle_selected")
    /\ UNCHANGED <<drv, regs, hw, env, callargs, xfer, control, bulk, outs, hist,
                   trace>>

reinit_cycle_selected ==
    /\ pc = "reinit_cycle_selected"
    /\ ids' = <<CsField(SPI_CONTROL), Uninit>>
    /\ IF "deselect" \in ptrs
       THEN /\ arg' = data[1]
            /\ CallFn("spi_deselect_device", "reinit_cycle_deinit")
       ELSE /\ Goto("reinit_cycle_deinit")
            /\ UNCHANGED arg
    /\ UNCHANGED <<drv, regs, hw, env, callargs, xfer, control, bulk, rx_byte, hist,
                   trace>>

reinit_cycle_deinit ==
    /\ pc = "reinit_cycle_deinit"
    /\ CallFn("spi_deinit", "reinit_cycle_init")
    /\ UNCHANGED <<drv, regs, hw, env, callargs, arg, xfer, control, bulk, outs,
                   hist, trace>>

reinit_cycle_init ==
    /\ pc = "reinit_cycle_init"
    /\ arg' = SPI_MODE_0
    /\ CallFn("spi_init", "reinit_cycle_done")
    /\ UNCHANGED <<drv, regs, hw, env, callargs, xfer, control, bulk, outs, hist,
                   trace>>

reinit_cycle_done ==
    /\ pc = "reinit_cycle_done"
    /\ Return("void")
    /\ UNCHANGED <<drv, regs, hw, env, callargs, arg, xfer, control, bulk, outs,
                   hist, trace>>

(* ------------------------------------------------------------------ *)
(* Initial state: the statics of spi_driver.c and a controller in reset *)
(* ------------------------------------------------------------------ *)
Reset ==
    /\ current_mode = SPI_MODE_0
    /\ current_cs = SPI_CS_0
    /\ initialized = FALSE
    /\ SPI_CONTROL = 0
    /\ SPI_CLK_DIV = 0
    /\ SPI_TX_DATA = 0
    /\ SPI_RX_DATA = 0
    /\ SPI_TX_FIFO = <<>>
    /\ SPI_RX_FIFO = <<>>
    /\ busy = FALSE
    /\ shift = 0
    /\ stat_error = FALSE
    /\ flashQ = <<>>
    /\ pc = "idle"
    /\ stack = <<>>
    /\ retval = "none"
    /\ op = "none"
    /\ arg = 0
    /\ clk_div = 0
    /\ tx_data = 0
    /\ rx_ptr = "NULL"
    /\ control = 0
    /\ data = <<>>
    /\ buffer = <<>>
    /\ length = 0
    /\ i = 0
    /\ timeout_ms = 0
    /\ ptrs = {}
    /\ rx_byte = Uninit
    /\ ids = <<Uninit, Uninit>>
    /\ pre = Snapshot
    /\ trace = <<>>
    /\ elapsed = 0
    /\ callErr = FALSE

Init == Reset /\ device = "none" /\ faulty = TRUE

\* spi_init(SPI_MODE_0, 4), the harness's own initialisation
CallInitDefault == Enter("spi_init", SPI_MODE_0, 4, 0, "NULL", <<>>, 0, 0, {})

\* spi_transfer(0xAA, NULL)
CallFireAndForget == Enter("spi_transfer", 0, 0, TEST_BYTE, "NULL", <<>>, 0, 0, {})

InitSteps == spi_init \/ spi_init_clk \/ spi_init_status

FireSteps ==
    \/ spi_transfer \/ spi_transfer_tx \/ spi_transfer_ctl \/ spi_transfer_start

TransferSteps ==
    \/ FireSteps
    \/ spi_transfer_wait \/ spi_transfer_check \/ spi_transfer_read

BlockingSteps ==
    \/ spi_transfer_blocking \/ spi_transfer_blocking_ret
    \/ spi_transfer_blocking_wait \/ spi_transfer_blocking_body
    \/ spi_transfer_blocking_check \/ spi_transfer_blocking_read

(* The transfer engine: single transfers against the controller *)
Next ==
    \/ CallInitDefault \/ InitSteps
    \/ CallTransfer \/ TransferSteps
    \/ CallTransferBlocking \/ BlockingSteps
    \/ HwAccept \/ HwComplete \/ Tick

Spec == Init /\ [][Next]_vars

(* The bulk helpers, with and without loopback, each called on an idle
   controller whose hardware raises no Error *)
BulkSteps ==
    \/ spi_write_bytes \/ spi_write_bytes_next
    \/ spi_read_bytes \/ spi_read_bytes_next
    \/ spi_transfer_bytes \/ spi_transfer_bytes_next

NextBulk ==
    \/ CallInitDefault \/ InitSteps
    \/ CallEnableLoopback \/ spi_enable_loopback \/ spi_enable_loopback_write
    \/ (~InFlight /\ (CallWriteBytes \/ CallReadBytes \/ CallTransferBytes))
    \/ BulkSteps \/ TransferSteps
    \/ HwAccept \/ HwComplete

InitBulk == Reset /\ device = "none" /\ faulty = FALSE

SpecBulk == InitBulk /\ [][NextBulk]_vars

(* The bulk helpers on hardware that may raise Error, called in any state of
   the controller *)
InitBulkErr == Reset /\ device = "none" /\ faulty = TRUE

\* transmit buffers 1, 2, .. of every length: each index has a byte of its own
RampData == {[k \in 1 .. n |-> k] : n \in 0 .. MaxLen}

NextBulkErr ==
    \/ CallInitDefault \/ InitSteps
    \/ (CallWriteBytes \/ CallReadBytes \/ CallTransferBytes) /\ data' \in RampData
    \/ BulkSteps \/ TransferSteps
    \/ HwAccept \/ HwComplete

SpecBulkErr == InitBulkErr /\ [][NextBulkErr]_vars

(* The flash helper against the simulated flash part, on error-free hardware,
   called on an idle controller *)
InitFlash == Reset /\ device = "flash" /\ faulty = FALSE

NextFlash ==
    \/ CallInitDefault \/ InitSteps
    \/ (~InFlight /\ CallFlashReadId)
    \/ spi_flash_read_id \/ spi_flash_read_id_cmd \/ spi_flash_read_id_resp
    \/ spi_flash_read_id_desel \/ spi_flash_read_id_out
    \/ spi_select_device \/ spi_select_device_write
    \/ spi_deselect_device \/ spi_deselect_device_write
    \/ spi_read_bytes \/ spi_read_bytes_next
    \/ TransferSteps
    \/ HwAccept \/ HwComplete

SpecFlash == InitFlash /\ [][NextFlash]_vars

(* The configuration operations *)
ConfigCalls ==
    \/ CallSetMode \/ CallSetClockDivider \/ CallSetCsPolarity
    \/ CallEnableLoopback \/ CallEnableInterrupt \/ CallClearInterrupt
    \/ CallSelectDevice \/ CallDeselectDevice

ConfigSteps ==
    \/ spi_set_mode \/ spi_set_mode_write \/ spi_set_clock_divider
    \/ spi_set_cs_polarity \/ spi_set_cs_polarity_write
    \/ spi_enable_loopback \/ spi_enable_loopback_write
    \/ spi_enable_interrupt \/ spi_enable_interrupt_write
    \/ spi_clear_interrupt
    \/ spi_select_device \/ spi_select_device_write
    \/ spi_deselect_device \/ spi_deselect_device_write

NextCfg ==
    \/ CallInit \/ InitSteps
    \/ CallDeinit \/ spi_deinit \/ spi_deinit_drain
    \/ ConfigCalls \/ ConfigSteps

SpecCfg == Init /\ [][NextCfg]_vars

(* The lifecycle: every operation may be called before initialisation; once
   initialised the program queues FIFO bytes and fires single transfers
   before it deinitialises again *)
EntrySteps ==
    \/ spi_set_mode \/ spi_set_cs_polarity \/ spi_enable_loopback
    \/ spi_enable_interrupt \/ spi_clear_interrupt \/ spi_deselect_device
    \/ spi_select_device \/ spi_set_clock_divider
    \/ spi_transfer_blocking \/ spi_write_bytes \/ spi_read_bytes
    \/ spi_transfer_bytes \/ spi_flash_read_id

UninitCalls ==
    \/ CallSetMode \/ CallSetCsPolarity \/ CallEnableLoopback
    \/ CallEnableInterrupt \/ CallClearInterrupt \/ CallDeselectDevice
    \/ CallTransferBlocking \/ CallWriteBytes \/ CallReadBytes
    \/ CallTransferBytes \/ CallFlashReadId \/ CallTransfer
    \/ CallSelectDevice \/ CallSetClockDivider

NextLife ==
    \/ CallInitDefault \/ InitSteps
    \/ CallDeinit \/ spi_deinit \/ spi_deinit_drain
    \/ CallFifoWrite \/ CallFifoRead
    \/ spi_fifo_write \/ spi_fifo_write_push \/ spi_fifo_read \/ spi_fifo_read_pop
    \/ HwFifo
    \/ CallFireAndForget \/ FireSteps \/ HwAccept \/ HwComplete
    \/ (~initialized /\ UninitCalls) \/ EntrySteps

InitLife == Reset /\ device = "none" /\ faulty = FALSE

SpecLife == InitLife /\ [][NextLife]_vars

(* Fire-and-forget transfers mixed with configuration operations while the
   controller works *)
NextMix ==
    \/ CallInitDefault \/ InitSteps
    \/ CallFireAndForget \/ FireSteps
    \/ CallDeselectDevice \/ spi_deselect_device \/ spi_deselect_device_write
    \/ CallEnableLoopback \/ spi_enable_loopback \/ spi_enable_loopback_write
    \/ HwAccept \/ HwComplete

SpecMix == InitLife /\ [][NextMix]_vars

(* One transfer with a destination at a time, each called on an initialised
   idle controller; the processor keeps executing the call it is in and the
   controller finishes every transfer it has accepted *)
NextPoll ==
    \/ (~InFlight /\ CallInitDefault) \/ InitSteps
    \/ (initialized /\ ~InFlight /\ CallTransfer /\ rx_ptr' = "rx_byte")
    \/ TransferSteps
    \/ HwAccept \/ HwComplete

SpecPoll ==
    Init /\ [][NextPoll]_vars /\ WF_vars(TransferSteps) /\ WF_vars(HwComplete)

(* Re-initialisation after a selection, with and without a deselection *)
ReinitSteps ==
    \/ reinit_cycle \/ reinit_cycle_select \/ reinit_cycle_selected
    \/ reinit_cycle_deinit \/ reinit_cycle_init \/ reinit_cycle_done

NextReinit ==
    \/ CallReinitCycle \/ ReinitSteps
    \/ InitSteps
    \/ spi_select_device \/ spi_select_device_write
    \/ spi_deselect_device \/ spi_deselect_device_write
    \/ spi_deinit \/ spi_deinit_drain

SpecReinit == InitLife /\ [][NextReinit]_vars

(* Draining the receive FIFO on deinitialisation; the processor keeps
   executing the call it is in *)
DrainSteps == spi_deinit \/ spi_deinit_drain \/ spi_fifo_read \/ spi_fifo_read_pop

NextDrain ==
    \/ CallInitDefault \/ InitSteps
    \/ CallDeinit \/ CallFifoWrite \/ CallFifoRead
    \/ spi_fifo_write \/ spi_fifo_write_push
    \/ DrainSteps
    \/ HwFifo

SpecDrain == InitLife /\ [][NextDrain]_vars /\ WF_vars(DrainSteps)

(* ------------------------------------------------------------------ *)
(* Properties                                                          *)
(* ------------------------------------------------------------------ *)
Returned(o) == pc = "idle" /\ op = o

\* the values the running call wrote to register r, in order
Written(r) ==
    LET w == SelectSeq(trace, LAMBDA e : e[1] = "W" /\ e[2] = r)
    IN [k \in 1 .. Len(w) |-> w[k][3]]

\* the number of bytes the running call popped from the receive FIFO
Pops == Len(SelectSeq(trace, LAMBDA e : e[1] = "R" /\ e[2] = "SPI_RX_FIFO"))

GuardedOps ==
    {"spi_set_mode", "spi_set_clock_divider", "spi_set_cs_polarity",
     "spi_enable_loopback", "spi_select_device", "spi_deselect_device",
     "spi_transfer", "spi_transfer_blocking", "spi_write_bytes", "spi_read_bytes",
     "spi_transfer_bytes", "spi_fifo_write", "spi_fifo_read",
     "spi_enable_interrupt", "spi_clear_interrupt", "spi_flash_read_id"}

\* C1: every operation other than init/deinit, called while not initialised,
\* returns INVALID_MODE and writes no register, pops no FIFO and changes no
\* driver state: Control keeps every bit but the Start bit the controller owns,
\* TxData and ClockDivider keep their values, and the FIFOs keep their bytes.
C1_UninitializedRejected ==
    (op \in GuardedOps /\ ~pre.init) =>
        /\ trace = <<>>
        /\ current_mode = pre.mode /\ current_cs = pre.cs /\ ~initialized
        /\ BitClear(SPI_CONTROL, CTRL_START) = BitClear(pre.control, CTRL_START)
        /\ SPI_TX_DATA = pre.tx /\ SPI_CLK_DIV = pre.clk
        /\ SPI_RX_FIFO \o SPI_TX_FIFO = pre.rxf \o pre.txf
        /\ (pc = "idle" => retval = SPI_ERROR_INVALID_MODE)

C1_Witness ==
    /\ Returned("spi_flash_read_id") /\ ~pre.init
    /\ retval = SPI_ERROR_INVALID_MODE
    /\ pre.clk = 4 /\ pre.tx = TEST_BYTE /\ pre.txf # <<>>

\* C2: a spi_transfer whose Busy check finds the Busy bit set returns BUSY in
\* that very step, writing neither TxData nor Control nor the receive
\* destination; a call that returned BUSY has written no register at all.
C2_BusyStep ==
    (pc = "spi_transfer" /\ initialized /\ busy /\ pc' # pc) =>
        /\ retval' = SPI_ERROR_BUSY
        /\ pc' = (IF stack = <<>> THEN "idle" ELSE Head(stack))
        /\ UNCHANGED <<regs, rx_byte, buffer, trace>>

C2_BusyRejected ==
    /\ [][C2_BusyStep]_vars
    /\ [](Returned("spi_transfer") /\ retval = SPI_ERROR_BUSY
            => trace = <<>> /\ rx_byte = Uninit /\ SPI_TX_DATA = pre.tx)

C2_Witness ==
    /\ Returned("spi_transfer") /\ retval = SPI_ERROR_BUSY
    /\ rx_ptr = "rx_byte" /\ pre.busy /\ tx_data # pre.tx

\* C3: whenever the driver reads RxData, the transfer it started has been
\* accepted and finished by the controller (no Start pending, Busy clear).
C3_ReadsRx ==
    \/ pc = "spi_transfer_read" /\ pc' # pc
    \/ pc = "spi_transfer_blocking_read" /\ "rx" \in ptrs /\ pc' # pc

C3_NoEarlyRead == [][C3_ReadsRx => ~InFlight]_vars

\* C4: spi_write_bytes on an initialised idle controller returns OK and has
\* written every byte of data to TxData exactly once, in order.
C4_WriteBytesOk ==
    (Returned("spi_write_bytes") /\ pre.init /\ ~pre.inflight /\ "tx" \in ptrs
        /\ length >= 1)
    => (retval = SPI_OK /\ Written("SPI_TX_DATA") = data)

\* C5: spi_flash_read_id on an initialised idle controller with the flash part
\* attached returns OK with manufacturer 0xEF and device 0x40, having sent
\* 0x9F and three 0xFF fillers.
C5_FlashId ==
    (Returned("spi_flash_read_id") /\ pre.init /\ ~pre.inflight)
    => /\ retval = SPI_OK
       /\ ids = <<FlashResponse[1], FlashResponse[2]>>
       /\ Written("SPI_TX_DATA") = <<CMD_READ_ID, FILLER, FILLER, FILLER>>

\* C6: with loopback enabled, spi_transfer_bytes on an initialised idle
\* controller returns OK and the receive buffer equals the transmit buffer.
C6_LoopbackRoundTrip ==
    (Returned("spi_transfer_bytes") /\ pre.init /\ ~pre.inflight
        /\ BitSet(pre.control, CTRL_LOOPBACK) /\ ptrs = {"tx", "rx"})
    => (retval = SPI_OK /\ buffer = data)

\* C7: a bounded wait that finds Busy still set after more than timeout_ms has
\* elapsed stops polling and returns TIMEOUT.
C7_TimeoutStep ==
    (pc = "spi_transfer_blocking_body" /\ timeout_ms > 0 /\ elapsed > timeout_ms
        /\ pc' # pc)
    => (pc' = "idle" /\ retval' = SPI_ERROR_TIMEOUT)

C7_TimeoutReturns == [][C7_TimeoutStep]_vars

\* C8: set_mode, select_device and deselect_device given an out-of-range value
\* on an initialised controller return INVALID_MODE and change neither Control
\* nor the stored mode and chip select.
C8_OutOfRange ==
    \/ op = "spi_set_mode" /\ ~ValidMode(arg)
    \/ op \in {"spi_select_device", "spi_deselect_device"} /\ ~ValidCs(arg)

C8_OutOfRangeRejected ==
    (pc = "idle" /\ pre.init /\ C8_OutOfRange)
    => /\ retval = SPI_ERROR_INVALID_MODE
       /\ trace = <<>>
       /\ current_mode = pre.mode /\ current_cs = pre.cs

\* C9: spi_deinit always returns OK and leaves the driver deinitialised, and a
\* call made when already deinitialised (the second of two in a row) writes no
\* register and pops no FIFO byte.
C9_DeinitIdempotent ==
    /\ Returned("spi_deinit") => retval = SPI_OK /\ ~initialized
    /\ (op = "spi_deinit" /\ ~pre.init)
         => trace = <<>> /\ ~initialized /\ pc \in {"spi_deinit", "idle"}

C9_Witness ==
    /\ Returned("spi_deinit") /\ ~pre.init /\ retval = SPI_OK
    /\ pre.clk = 4 /\ pre.control = 0 /\ pre.rxf = <<>> /\ pre.txf = <<>>

\* C10: spi_deinit on an initialised controller writes Control to 0 first, then
\* only pops the receive FIFO, keeps initialized set while it runs, and returns
\* OK with Control = 0 and initialized clear; when no further byte arrives it
\* has popped exactly the bytes the FIFO held and leaves it empty; and the call
\* always returns.
C10_DrainShape ==
    (op = "spi_deinit" /\ pre.init) =>
        /\ trace # <<>> => trace[1] = <<"W", "SPI_CONTROL", 0>>
        /\ Pops = Len(trace) - (IF trace = <<>> THEN 0 ELSE 1)
        /\ pc # "idle" => initialized
        /\ pc = "idle" =>
              /\ retval = SPI_OK /\ ~initialized /\ SPI_CONTROL = 0
              /\ SPI_TX_FIFO = pre.txf =>
                    (Pops = Len(pre.rxf) /\ spi_is_rx_fifo_empty)

C10_DeinitDrains ==
    /\ []C10_DrainShape
    /\ (op = "spi_deinit" /\ pc # "idle") ~> (pc = "idle")

C10_Witness ==
    /\ Returned("spi_deinit") /\ pre.init /\ SPI_TX_FIFO = pre.txf
    /\ Len(pre.rxf) = FifoDepth /\ Pops = FifoDepth

\* C11: after spi_init returns, Control is exactly the mode bits of the stored
\* mode plus the select bit of the current chip-select line (bit 3 for CS0 and
\* its alias CS2, bit 4 for CS1 and its alias CS3) and nothing else,
\* ClockDivider is the divider passed, the Error flag a status write can clear
\* is clear, the driver is initialised and the stored mode is a valid one.
C11_InitResult ==
    Returned("spi_init") =>
        /\ SPI_CONTROL = BitOr(ModeBits(current_mode), SelectBit(current_cs))
        /\ SPI_CLK_DIV = clk_div
        /\ ~stat_error
        /\ initialized
        /\ ValidMode(current_mode)

\* clock phase and clock polarity of an SPI mode
Phase(m) == m % 2
Polarity(m) == m \div 2

\* C12: spi_set_mode(m) with m in Mode0..Mode3 on an initialised controller
\* returns OK; afterwards Control bit 1 is the phase and bit 2 the polarity of
\* m, the stored mode is m, and distinct modes have distinct mode bits.
C12_SetModeBits ==
    (Returned("spi_set_mode") /\ pre.init /\ ValidMode(arg)) =>
          /\ retval = SPI_OK
          /\ BitSet(SPI_CONTROL, CTRL_MODE0) = (Phase(arg) = 1)
          /\ BitSet(SPI_CONTROL, CTRL_MODE1) = (Polarity(arg) = 1)
          /\ current_mode = arg
          /\ \A m \in {SPI_MODE_0, SPI_MODE_1, SPI_MODE_2, SPI_MODE_3} \ {arg} :
                ModeBits(m) # ModeBits(arg)

C12_Witness ==
    /\ Returned("spi_set_mode") /\ pre.init /\ retval = SPI_OK
    /\ arg = SPI_MODE_1 /\ pre.mode = SPI_MODE_2
    /\ BitSet(pre.control, CTRL_MODE1) /\ BitSet(pre.control, CTRL_LOOPBACK)

\* C13: spi_set_clock_divider(d) on an initialised controller returns OK and
\* leaves ClockDivider = 2 for d < 2 and = d otherwise; the one register write
\* of the call is that write of ClockDivider, and no other register or driver
\* variable changes.
C13_DividerStored ==
    (Returned("spi_set_clock_divider") /\ pre.init) =>
        LET stored == IF arg < 2 THEN 2 ELSE arg
        IN /\ retval = SPI_OK
           /\ SPI_CLK_DIV = stored
           /\ trace = <<<<"W", "SPI_CLK_DIV", stored>>>>
           /\ SPI_CONTROL = pre.control /\ SPI_TX_DATA = pre.tx
           /\ SPI_TX_FIFO = pre.txf /\ SPI_RX_FIFO = pre.rxf
           /\ current_mode = pre.mode /\ current_cs = pre.cs /\ initialized

C13_Witness ==
    /\ Returned("spi_set_clock_divider") /\ pre.init /\ retval = SPI_OK
    /\ arg = 1 /\ SPI_CLK_DIV = 2 /\ pre.clk = 255 /\ pre.control # 0

\* C14: on an initialised controller spi_fifo_write returns FIFO_FULL exactly
\* when its status read finds Tx-full set, and then writes no register;
\* otherwise it appends its byte to the transmit FIFO and returns OK.
\* spi_fifo_read returns FIFO_EMPTY exactly when its status read finds Rx-empty
\* set, and then reads no FIFO byte and leaves the destination alone; otherwise
\* it pops the head of the receive FIFO into the destination and returns OK.
C14_FifoStep ==
    /\ (pc = "spi_fifo_write" /\ initialized /\ pc' # pc) =>
          IF spi_is_tx_fifo_full
          THEN /\ retval' = SPI_ERROR_FIFO_FULL
               /\ pc' = (IF stack = <<>> THEN "idle" ELSE Head(stack))
               /\ UNCHANGED <<regs, trace>>
          ELSE pc' = "spi_fifo_write_push"
    /\ (pc = "spi_fifo_write_push" /\ pc' # pc) =>
          /\ SPI_TX_FIFO' = Append(SPI_TX_FIFO, arg)
          /\ trace' = Append(trace, <<"W", "SPI_TX_FIFO", arg>>)
          /\ retval' = SPI_OK
          /\ UNCHANGED SPI_RX_FIFO
    /\ (pc = "spi_fifo_read" /\ initialized /\ pc' # pc) =>
          IF spi_is_rx_fifo_empty
          THEN /\ retval' = SPI_ERROR_FIFO_EMPTY
               /\ pc' = (IF stack = <<>> THEN "idle" ELSE Head(stack))
               /\ UNCHANGED <<regs, rx_byte, trace>>
          ELSE pc' = "spi_fifo_read_pop"
    /\ (pc = "spi_fifo_read_pop" /\ pc' # pc) =>
          /\ SPI_RX_FIFO # <<>>
          /\ rx_byte' = Head(SPI_RX_FIFO)
          /\ SPI_RX_FIFO' = Tail(SPI_RX_FIFO)
          /\ retval' = SPI_OK
          /\ UNCHANGED SPI_TX_FIFO

C14_FifoGuards ==
    /\ [][C14_FifoStep]_vars
    /\ [](Returned("spi_fifo_write") /\ pre.init =>
            \/ retval = SPI_ERROR_FIFO_FULL /\ trace = <<>>
            \/ retval = SPI_OK /\ trace = <<<<"W", "SPI_TX_FIFO", arg>>>>)
    /\ [](Returned("spi_fifo_read") /\ pre.init =>
            \/ retval = SPI_ERROR_FIFO_EMPTY /\ trace = <<>> /\ rx_byte = Uninit
            \/ retval = SPI_OK /\ Pops = 1 /\ Len(trace) = 1 /\ rx_byte = FIFO_BYTE)

C14_Witness ==
    /\ Returned("spi_fifo_write") /\ pre.init
    /\ retval = SPI_ERROR_FIFO_FULL
    /\ Len(SPI_TX_FIFO) = FifoDepth /\ Len(SPI_RX_FIFO) = FifoDepth

BulkOps == {"spi_write_bytes", "spi_read_bytes", "spi_transfer_bytes"}

\* the byte a bulk call sends for its k-th transfer (k from 1)
Sent(k) == IF op # "spi_read_bytes" /\ "tx" \in ptrs THEN data[k] ELSE FILLER

\* the values the running call read from RxData, in order
RxReads ==
    LET r == SelectSeq(trace, LAMBDA e : e[1] = "R" /\ e[2] = "SPI_RX_DATA")
    IN [k \in 1 .. Len(r) |-> r[k][3]]

\* C15: a bulk call returns the first error a single transfer returns, in the
\* step that sees it and without starting another transfer.  With i the index
\* of the failed transfer: the bytes of indexes 0..i-1 were sent once each, in
\* order, the byte of index i at most once (not at all when it was rejected
\* as BUSY) and nothing after it; receive-buffer entries 0..i-1 hold the bytes
\* read from RxData and entries i..n-1 are as they were before the call.
C15_ErrorStep ==
    (pc \in {"spi_write_bytes_next", "spi_read_bytes_next", "spi_transfer_bytes_next"}
        /\ retval # SPI_OK /\ pc' # pc)
    => /\ pc' = "idle"
       /\ retval' = retval
       /\ UNCHANGED <<regs, buffer, i, trace>>

C15_Partial ==
    (op \in BulkOps /\ pc = "idle" /\ pre.init /\ retval # SPI_OK) =>
        LET w == Written("SPI_TX_DATA")
        IN /\ i < length
           /\ Len(w) = (IF retval = SPI_ERROR_BUSY THEN i ELSE i + 1)
           /\ \A k \in 1 .. Len(w) : w[k] = Sent(k)
           /\ Len(RxReads) = (IF op = "spi_write_bytes" THEN 0 ELSE i)
           /\ "rx" \in ptrs =>
                 \A k \in 1 .. length :
                    buffer[k] = (IF k <= i THEN RxReads[k] ELSE Uninit)

C15_BulkAbort == [][C15_ErrorStep]_vars /\ []C15_Partial

C15_Witness ==
    /\ Returned("spi_read_bytes") /\ pre.init
    /\ retval = SPI_ERROR_TIMEOUT
    /\ length = 2 /\ i = 1
    /\ buffer[1] = 255 /\ buffer[2] = Uninit

\* the running call has written Control with the Start bit set
Started ==
    \E k \in 1 .. Len(trace) :
        /\ trace[k][1] = "W" /\ trace[k][2] = "SPI_CONTROL"
        /\ BitSet(trace[k][3], CTRL_START)

\* C16: a started spi_transfer with a destination, and a started
\* spi_transfer_blocking, reach their Error check only from a poll that found
\* Busy clear.  If that check finds the Error flag set the call returns
\* TIMEOUT without reading RxData or writing the destination; if it finds the
\* flag clear the call reads RxData once, stores that value in the destination
\* (when there is one) and returns OK.
C16_CheckStep ==
    /\ (pc' = "spi_transfer_check" /\ pc' # pc) =>
          (pc = "spi_transfer_wait" /\ ~spi_is_busy)
    /\ (pc' = "spi_transfer_blocking_check" /\ pc' # pc) =>
          (pc = "spi_transfer_blocking_wait" /\ ~spi_is_busy)
    /\ (pc \in {"spi_transfer_check", "spi_transfer_blocking_check"} /\ pc' # pc) =>
          IF spi_has_error
          THEN /\ retval' = SPI_ERROR_TIMEOUT
               /\ pc' = (IF stack = <<>> THEN "idle" ELSE Head(stack))
               /\ UNCHANGED <<regs, rx_byte, buffer, trace>>
          ELSE pc' = (IF pc = "spi_transfer_check" THEN "spi_transfer_read"
                      ELSE "spi_transfer_blocking_read")
    /\ (pc = "spi_transfer_read" /\ pc' # pc) =>
          /\ retval' = SPI_OK
          /\ trace' = Append(trace, <<"R", "SPI_RX_DATA", SPI_RX_DATA>>)
          /\ rx_ptr = "rx_byte" => rx_byte' = SPI_RX_DATA
    /\ (pc = "spi_transfer_blocking_read" /\ pc' # pc) =>
          /\ retval' = SPI_OK
          /\ IF "rx" \in ptrs
             THEN /\ trace' = Append(trace, <<"R", "SPI_RX_DATA", SPI_RX_DATA>>)
                  /\ rx_byte' = SPI_RX_DATA
             ELSE UNCHANGED <<trace, rx_byte>>

C16_Outcome ==
    (pc = "idle" /\ Started
        /\ \/ op = "spi_transfer" /\ rx_ptr = "rx_byte"
           \/ op = "spi_transfer_blocking")
    => \/ retval = SPI_ERROR_TIMEOUT /\ RxReads = <<>> /\ rx_byte = Uninit
       \/ /\ retval = SPI_OK
          /\ IF op = "spi_transfer_blocking" /\ "rx" \notin ptrs
             THEN RxReads = <<>> /\ rx_byte = Uninit
             ELSE RxReads = <<rx_byte>>

C16_ErrorCheck == [][C16_CheckStep]_vars /\ []C16_Outcome

C16_Witness ==
    /\ Returned("spi_transfer") /\ rx_ptr = "rx_byte" /\ Started
    /\ retval = SPI_ERROR_TIMEOUT /\ callErr
    /\ rx_byte = Uninit /\ RxReads = <<>>

\* C17: on an initialised controller spi_select_device(c) leaves only bit 3 of
\* the select field set for c in {CS0, CS2} and only bit 4 for c in {CS1, CS3},
\* and records c as the current line; spi_deselect_device clears only bit 3
\* for CS0, only bit 4 for CS1 and both bits for CS2 and CS3, and never
\* changes the current line.
C17_ChipSelectAliasing ==
    /\ (Returned("spi_select_device") /\ pre.init /\ ValidCs(arg)) =>
          /\ retval = SPI_OK
          /\ BitSet(SPI_CONTROL, CTRL_CS0) = (arg \in {SPI_CS_0, SPI_CS_2})
          /\ BitSet(SPI_CONTROL, CTRL_CS1) = (arg \in {SPI_CS_1, SPI_CS_3})
          /\ current_cs = arg
    /\ (Returned("spi_deselect_device") /\ pre.init /\ ValidCs(arg)) =>
          /\ retval = SPI_OK
          /\ SPI_CONTROL =
                BitClear(pre.control,
                         IF arg = SPI_CS_0 THEN CTRL_CS0
                         ELSE IF arg = SPI_CS_1 THEN CTRL_CS1
                         ELSE CTRL_CS0 + CTRL_CS1)
          /\ current_cs = pre.cs

C17_Witness ==
    /\ Returned("spi_deselect_device") /\ pre.init /\ retval = SPI_OK
    /\ arg = SPI_CS_2 /\ pre.cs = SPI_CS_3
    /\ BitSet(pre.control, CTRL_CS1) /\ ~BitSet(SPI_CONTROL, CTRL_CS1)
    /\ current_cs = SPI_CS_3

\* the bit-field of Control a configuration operation owns
Field(o) ==
    CASE o = "spi_set_mode" -> CTRL_MODE0 + CTRL_MODE1
      [] o \in {"spi_select_device", "spi_deselect_device"} -> CTRL_CS0 + CTRL_CS1
      [] o = "spi_enable_interrupt" -> CTRL_IRQ_EN
      [] o = "spi_enable_loopback" -> CTRL_LOOPBACK
      [] o = "spi_set_cs_polarity" -> CTRL_CS_POL
      [] OTHER -> 0

ControlOps ==
    {"spi_set_mode", "spi_select_device", "spi_deselect_device",
     "spi_enable_interrupt", "spi_enable_loopback", "spi_set_cs_polarity"}

\* C18: on an initialised controller every write of Control by a configuration
\* operation keeps each bit outside the operation's own field as the operation
\* read it; these operations write no register but Control, at most once, and
\* spi_set_clock_divider writes no register but ClockDivider.
C18_WriteStep ==
    (op \in ControlOps /\ SPI_CONTROL' # SPI_CONTROL) =>
        /\ BitClear(SPI_CONTROL', Field(op)) = BitClear(control, Field(op))
        /\ control = SPI_CONTROL
        /\ UNCHANGED <<SPI_CLK_DIV, SPI_TX_DATA, SPI_TX_FIFO, SPI_RX_FIFO>>

C18_Frame ==
    /\ (op \in ControlOps /\ pre.init) =>
          /\ Len(trace) <= 1
          /\ \A k \in 1 .. Len(trace) : trace[k][1] = "W" /\ trace[k][2] = "SPI_CONTROL"
          /\ BitClear(SPI_CONTROL, Field(op)) = BitClear(pre.control, Field(op))
          /\ SPI_CLK_DIV = pre.clk /\ SPI_TX_DATA = pre.tx
          /\ SPI_TX_FIFO = pre.txf /\ SPI_RX_FIFO = pre.rxf
    /\ (op = "spi_set_clock_divider" /\ pre.init) =>
          /\ \A k \in 1 .. Len(trace) : trace[k][2] = "SPI_CLK_DIV"
          /\ SPI_CONTROL = pre.control /\ SPI_TX_DATA = pre.tx
          /\ SPI_TX_FIFO = pre.txf /\ SPI_RX_FIFO = pre.rxf

C18_OwnFieldOnly == [][C18_WriteStep]_vars /\ []C18_Frame

C18_Witness ==
    /\ Returned("spi_enable_loopback") /\ pre.init /\ retval = SPI_OK
    /\ arg = 1 /\ ~BitSet(pre.control, CTRL_LOOPBACK)
    /\ BitSet(SPI_CONTROL, CTRL_LOOPBACK)
    /\ BitSet(pre.control, CTRL_CS_POL) /\ BitSet(pre.control, CTRL_IRQ_EN)
    /\ BitSet(pre.control, CTRL_MODE1) /\ BitSet(pre.control, CTRL_CS1)

\* the step is a driver write of TxData, or of Control with the Start bit set
C19_HandsOver ==
    /\ Len(trace') = Len(trace) + 1
    /\ LET e == trace'[Len(trace')]
       IN /\ e[1] = "W"
          /\ \/ e[2] = "SPI_TX_DATA"
             \/ e[2] = "SPI_CONTROL" /\ BitSet(e[3], CTRL_START)

\* C19: the driver writes TxData, or Control with the Start bit set, only when
\* no transfer is in flight (no Start pending in Control and Busy clear).
C19_OneInFlight == [][C19_HandsOver => ~InFlight]_vars

\* the state of the controller's transfer machine
TransferState ==
    IF busy THEN "Busy"
    ELSE IF BitSet(SPI_CONTROL, CTRL_START) THEN "Starting"
    ELSE "Idle"

C20_Machine ==
    TransferState' # TransferState =>
        <<TransferState, TransferState'>> \in
            {<<"Idle", "Starting">>, <<"Starting", "Busy">>, <<"Busy", "Idle">>}

\* C20: with the controller finishing every transfer it accepts, a spi_transfer
\* with a destination called on an initialised idle controller always returns,
\* with OK or TIMEOUT; the controller moves Idle -> Starting -> Busy -> Idle
\* only, and when the call returns the transfer it started has gone all the
\* way round (no Start pending, Busy clear).  The poll is never left while
\* Busy is set, and no other operation is entered while a call runs.
C20_TransferCompletes ==
    /\ (op = "spi_transfer" /\ pc # "idle") ~>
          (pc = "idle" /\ retval \in {SPI_OK, SPI_ERROR_TIMEOUT})
    /\ [][C20_Machine]_vars
    /\ [](Returned("spi_transfer") /\ Started => ~InFlight)
    /\ [][(pc = "spi_transfer_wait" /\ busy) => pc' = pc]_vars
    /\ [][pc # "idle" => op' = op]_vars

\* C21: a spi_flash_read_id that returns OK has sent the command and the three
\* fillers, has read RxData three times, has seen no Error raised, and reports
\* as manufacturer and device ids the first two bytes it read from RxData.
C21_FlashOkMeansRead ==
    (Returned("spi_flash_read_id") /\ pre.init /\ retval = SPI_OK) =>
        /\ Written("SPI_TX_DATA") = <<CMD_READ_ID, FILLER, FILLER, FILLER>>
        /\ ~callErr
        /\ Len(RxReads) = 3
        /\ ids = <<RxReads[1], RxReads[2]>>

\* C22: whenever the driver is initialised and no call is running, ClockDivider
\* holds a value of at least 2.
C22_DividerAtLeastTwo == (initialized /\ pc = "idle") => SPI_CLK_DIV >= 2

\* C23: after select(c); deinit; init the chip-select field of Control is what
\* it was right after select(c), and after select(c); deselect(c); deinit; init
\* no chip-select bit is set, for every line c.
C23_ReinitKeepsSelection ==
    Returned("reinit_cycle") =>
        CsField(SPI_CONTROL) = (IF "deselect" \in ptrs THEN 0 ELSE ids[1])

====
